---- MODULE Spec2Model ----
(***************************************************************************)
(* Session generator: the batch runner (runScheduledSessions), the session *)
(* run loop (runSession) and the HTTP / cron shell around them.            *)
(*                                                                         *)
(* The repository ships four entry points that share the run loop:         *)
(*   "server"   app/sessions_server.js + session_helpers.js (part_000)     *)
(*   "monolith" the single-file server with cron and SIGTERM (part_001)    *)
(*   "oneshot"  the run-once cron script (part_000, second half)           *)
(*   "handler"  the serverless handler with an inline run loop (part_002)  *)
(* A process runs exactly one of them; `variant` records which.            *)
(*                                                                         *)
(* One step of the model is one turn of the JavaScript event loop: the     *)
(* code between two suspension points (await) runs atomically.             *)
(***************************************************************************)
EXTENDS Integers, Sequences, FiniteSets, TLC

\* ---------------------------------------------------------------- bounds
MaxProcs == 2      \* invocation slots of the batch function
MaxCount == 2      \* largest explicit sessionCount of a trigger body
MaxBatches == 2    \* batches started during one process lifetime
MaxFaults == 1     \* runs of one batch in which collaborators fail
RandDen == 30      \* Math.random() is sampled as k / RandDen
MaxConc == 2       \* largest explicit maxConcurrent of a trigger body
DrawDen == 6       \* the draws of the generators are sampled as k / DrawDen

\* ------------------------------------------------------ program constants
MinSessions == 23
MaxSessions == 52
PollMs == 1000           \* the shutdown handler polls the lock once a second
DrainCeilingMs == 300000 \* and gives up after five minutes
KilledBySignal == 143    \* exit status of a process ended by SIGTERM (128 + 15)

Variants == {"server", "monolith", "oneshot", "handler"}
Procs == 1..MaxProcs

VARIABLES
    variant,          \* which entry point this process runs
    env,              \* the environment the process was started in
    phase,            \* "boot" | "connecting" | "serving" | "draining" | "exited"
    bound,            \* the HTTP port has been bound
    waitTime,         \* the shutdown handler's waitTime, in ms
    open,             \* provider sessions created and not yet asked to be released
    utm,              \* the latest result of generateUtm
    device,           \* the latest result of randomizeBrowser
    urls,             \* the URLs built from the latest result of generateUtm
    exitCode,         \* process exit code, -1 while running
    isJobRunning,     \* the run lock
    currentJobStats,  \* the JobStats object
    batches,          \* batches started so far (also the clock of startTime)
    b,                \* per invocation slot: the batch function's locals
    resp,             \* the HTTP response written by the current step
    lastCall          \* how the latest invocation of the batch function went

vars == <<variant, env, phase, bound, waitTime, open, utm, device, urls, exitCode, isJobRunning,
          currentJobStats, batches, b, resp, lastCall>>

\* ------------------------------------------------------------ variants
\* Entry points that keep the lock and JobStats.
HasLock(v) == v \in {"server", "monolith"}

\* Only the single-file server registers cron schedules.
HasCron(v) == v = "monolith"

\* Only the single-file server registers a SIGTERM handler.
HasShutdown(v) == v = "monolith"

\* ------------------------------------------------------------ run loop
\* The awaited operations of one run, in program order.
HelperStages ==
    <<"create", "connect", "viewport", "userAgent", "landing", "interstitial",
      "signupNav", "signupForm", "checkbox", "planSelect", "signupSubmit",
      "loginNav", "csrf", "loginSubmit", "bannerCheck", "homeNav",
      "modalCheck", "modalClose", "movieClick", "dropdown", "logout",
      "closePage", "closeBrowser">>

\* The handler's inline copy has no interstitial step.
HandlerStages ==
    <<"create", "connect", "viewport", "userAgent", "landing",
      "signupNav", "signupForm", "checkbox", "planSelect", "signupSubmit",
      "loginNav", "csrf", "loginSubmit", "bannerCheck", "homeNav",
      "modalCheck", "modalClose", "movieClick", "dropdown", "logout",
      "closePage", "closeBrowser">>

Stages(v) == IF v = "handler" THEN HandlerStages ELSE HelperStages

StageIndex(v, s) == CHOOSE k \in 1..Len(Stages(v)) : Stages(v)[k] = s

LastStage(v) == Stages(v)[Len(Stages(v))]

\* The operation awaited after stage s settled with outcome o and the run goes on.
\* No user agent in the device profile, the 45% branch without the checkbox and a
\* hidden modal skip the operation ("skip"); a close button that cannot be clicked
\* falls back to removing the modal from the DOM.
NextStage(v, s, o) ==
    CASE s = "modalCheck" /\ o = "skip" -> "movieClick"
      [] s = "modalClose" /\ o = "fail" -> "modalRemove"
      [] s = "modalRemove"              -> "movieClick"
      [] OTHER                          -> Stages(v)[StageIndex(v, s) + 1]

\* Seeded fault: every stage swallows its own error.
RecoverableAlways(v, s) == TRUE

\* Stages wrapped in their own try/catch that swallows the error.
Recoverable(v, s) ==
    \/ s \in {"userAgent", "interstitial", "modalClose"}
    \/ s = "csrf" /\ v # "handler"

\* What a stage can turn out to be.
Outcomes(s) ==
    CASE s = "userAgent"   -> {"ok", "fail", "skip"}
      [] s = "checkbox"    -> {"ok", "fail", "skip"}
      [] s = "bannerCheck" -> {"ok", "fail", "banner"}
      [] s = "modalCheck"  -> {"ok", "fail", "skip"}
      [] OTHER             -> {"ok", "fail"}

IsFault(o) == o \in {"fail", "banner"}

\* The stages whose awaited operation is a naturalClick on a selector.
ClickStages ==
    {"checkbox", "planSelect", "signupSubmit", "movieClick", "dropdown", "logout"}

\* What a naturalClick meets: page.$ finds the element, finds none or throws; the
\* element has a bounding box; the pointer moves go through; mouse down and up
\* go through; the direct page.click goes through.
ClickInputs ==
    [lookup : {"found", "absent", "throws"}, box : BOOLEAN, moves : BOOLEAN,
     press : BOOLEAN, direct : BOOLEAN]

\* moveMouseHuman: TRUE when the pointer has been moved onto the element. No
\* bounding box returns early, an error on the way is caught and logged.
MoveMouseHuman(c) == c.box /\ c.moves

\* The handler's naturalClick: "clicked" when the target element received the
\* click, "unclicked" when the call returned without that. It never throws: a
\* missing element returns at once, an error falls back to page.click whose
\* own rejection is swallowed, and mouse down/up press wherever the pointer is.
NaturalClick(c) ==
    CASE c.lookup = "absent" -> "unclicked"
      [] c.lookup = "throws" -> IF c.direct THEN "clicked" ELSE "unclicked"
      [] c.press             -> IF MoveMouseHuman(c) THEN "clicked" ELSE "unclicked"
      [] OTHER               -> IF c.direct THEN "clicked" ELSE "unclicked"

\* How the handler's click stages can turn out besides an error of the waits
\* around the click: clicked ("ok") or returned with the target unclicked ("miss").
ClickOutcomes(v, s) ==
    IF v = "handler" /\ s \in ClickStages
    THEN {IF NaturalClick(c) = "clicked" THEN "ok" ELSE "miss" : c \in ClickInputs}
    ELSE {}

\* The outcomes held to the budget of upset runs of a batch.
Upset(o) == IsFault(o) \/ o = "miss"

NoRun ==
    [stage |-> "none", creates |-> 0, session |-> 0, failed |-> FALSE, releases |-> 0,
     relFailed |-> FALSE, unclicked |-> FALSE, closes |-> 0, result |-> "none"]

\* The run is suspended in bb.sessions.create: its first awaited operation.
NewRun == [NoRun EXCEPT !.stage = "create", !.creates = 1]

\* The first line of runSession logs `sessionCount`; the single-file server never
\* declares it in runSession's scope, so the template literal throws there.
StartThrows(v) == v = "monolith"

\* Seeded fault: the outer catch rethrows instead of returning false.
RunCatchRethrow == "threw"

\* The outer catch of runSession: log and return false.
RunCatch == "false"

\* The return at the end of the try block.
RunReturn == "true"

\* Seeded fault: the finally block releases whether or not a session exists.
ShouldReleaseAlways(v, session) == v # "handler"

\* finally: release only a session that was created; the handler has no finally.
ShouldRelease(v, session) == v # "handler" /\ session # 0

\* Seeded fault: a failed release is rethrown out of the finally block.
ReleaseCatchRethrow(result) == "threw"

\* The catch around the release call: log only, the completion stands.
ReleaseCatch(result) == result

\* The run leaves its try/catch with `result` and enters the finally block.
Finally(v, r, result) ==
    IF ShouldRelease(v, r.session)
    THEN [r EXCEPT !.stage = "release", !.result = result]
    ELSE [r EXCEPT !.stage = "returned", !.result = result]

\* Seeded fault: the outer catch closes the page and the browser connection.
CatchClosesBrowser(r) == IF r.session # 0 THEN 2 ELSE r.closes

\* The closes performed once the outer catch has run: it closes nothing.
CatchCloses(r) == r.closes

\* The closes performed once stage s went through: page.close(), browser.close().
ClosesAfter(r, s) == IF s \in {"closePage", "closeBrowser"} THEN r.closes + 1 ELSE r.closes

\* The run record once the operation awaited at r.stage settles with outcome o.
StepRun(v, r, i, o) ==
    LET s == r.stage IN
    IF s = "release"
    THEN [r EXCEPT !.stage = "returned",
                   !.releases = @ + 1,
                   !.relFailed = (o = "fail"),
                   !.result = IF o = "fail" THEN ReleaseCatch(r.result) ELSE r.result]
    ELSE IF IsFault(o) /\ ~Recoverable(v, s)
    THEN Finally(v, [r EXCEPT !.failed = TRUE, !.closes = CatchCloses(r)], RunCatch)
    ELSE LET r0 == IF s = "create" /\ o = "ok" THEN [r EXCEPT !.session = i]
                   ELSE IF o = "miss" THEN [r EXCEPT !.unclicked = TRUE]
                   ELSE r
             r1 == [r0 EXCEPT !.closes = ClosesAfter(r, s)]
         IN  IF s = LastStage(v)
             THEN Finally(v, r1, RunReturn)
             ELSE [r1 EXCEPT !.stage = NextStage(v, s, o)]

\* The provider sessions created and not yet asked to be released, once the run
\* went from record r to record r1.
OpenAfter(n, r, r1) ==
    n + (IF r.session = 0 /\ r1.session # 0 THEN 1 ELSE 0)
      - (IF r.stage # "release" /\ r1.stage = "release" THEN 1 ELSE 0)

\* runSession up to its first await.
EnterRun(v) ==
    IF StartThrows(v)
    THEN Finally(v, [NoRun EXCEPT !.failed = TRUE], RunCatch)
    ELSE NewRun

\* -------------------------------------------------------- batch runner
NoStats == [startTime |-> 0, completedSessions |-> 0, totalSessions |-> 0, errors |-> <<>>]

IdleBatch ==
    [pc |-> "idle", asked |-> 0, count |-> 0, i |-> 0, nres |-> 0, succ |-> 0,
     faults |-> 0, faulty |-> FALSE, attempts |-> <<>>, run |-> NoRun]

NoCall ==
    [kind |-> "none", value |-> "none", asked |-> 0, count |-> 0, succ |-> 0,
     attempts |-> <<>>]

NoResp == [req |-> "none", status |-> 0]

\* The values Math.random() is sampled at: k / RandDen, the smallest and the largest.
RandSamples == {0, RandDen - 1}

\* Seeded fault: the draw is scaled by the maximum, not by the width of the range.
RandomCountWide(k) == (k * MaxSessions) \div RandDen + MinSessions

\* Math.floor(Math.random() * (52 - 23 + 1)) + 23
RandomCount(k) == (k * (MaxSessions - MinSessions + 1)) \div RandDen + MinSessions

\* A sessionCount that is not there: undefined.
Absent == -1

\* The sessionCount values of a trigger body: none, zero or a count.
Counts == {Absent} \cup (0..MaxCount)

\* Seeded fault: only a missing count is replaced, as with `??`.
TruthyUnlessAbsent(n) == n # Absent

\* JavaScript truthiness of a sessionCount: undefined and 0 are falsy.
Truthy(n) == n # Absent /\ n # 0

\* The count that was asked for, 0 when the batch has to draw one.
Asked(n) == IF Truthy(n) THEN n ELSE 0

\* options.sessionCount || random
SessionCount(n, k) == IF Truthy(n) THEN n ELSE RandomCount(k)

\* Seeded fault: no batch is started once the process is shutting down.
BusyOrDraining(lock) == lock \/ phase = "draining"

\* Seeded fault: the batch function does not look at the lock.
BusyNever(lock) == FALSE

\* if (isJobRunning) at the head of runScheduledSessions.
Busy(lock) == lock

\* isJobRunning = true at the start of a batch.
LockTaken == TRUE

\* Seeded fault: the loop stops one run early.
LoopStopsEarly(i, count) == i < count

\* The for loop's condition.
LoopContinues(i, count) == i <= count

\* Seeded fault: the batch reports failure unless every run succeeded.
BatchReturnAllOk(succ, count) == IF succ = count THEN "true" ELSE "false"

\* The batch function's value when the loop has ended.
BatchReturn(succ, count) == "true"

\* The value of an invocation that found the lock taken.
SkipReturn == "false"

\* The value of a batch whose orchestration threw.
BatchFailReturn == "false"

\* Seeded fault: the loop is left as soon as a run did not return true.
AfterRunBreakOnFailure(v, bp, r, stats) ==
    [bat |-> [bp EXCEPT !.pc = "delay",
                        !.run = r,
                        !.i = IF r.result = "true" THEN @ ELSE bp.count,
                        !.nres = IF r.result = "threw" THEN @ ELSE @ + 1,
                        !.succ = IF r.result = "true" THEN @ + 1 ELSE @],
     stats |->
        IF ~HasLock(v) THEN stats
        ELSE IF r.result = "true"
        THEN [stats EXCEPT !.completedSessions = @ + 1]
        ELSE stats,
     crashed |-> FALSE]

\* Seeded fault: every run that returned is counted as completed.
AfterRunCountsReturned(v, bp, r, stats) ==
    [bat |-> [bp EXCEPT !.pc = "delay",
                        !.run = r,
                        !.nres = IF r.result = "threw" THEN @ ELSE @ + 1,
                        !.succ = IF r.result = "true" THEN @ + 1 ELSE @],
     stats |->
        IF ~HasLock(v) THEN stats
        ELSE IF r.result = "threw"
        THEN [stats EXCEPT !.errors = Append(@, [kind |-> "run", session |-> bp.i])]
        ELSE [stats EXCEPT !.completedSessions = @ + 1],
     crashed |-> v = "handler" /\ r.result = "threw"]

\* The batch resumes after `await runSession(...)` settled with run record r.
\* A result is pushed and counted; a rejection is caught and recorded per run.
AfterRun(v, bp, r, stats) ==
    [bat |-> [bp EXCEPT !.pc = "delay",
                        !.run = r,
                        !.nres = IF r.result = "threw" THEN @ ELSE @ + 1,
                        !.succ = IF r.result = "true" THEN @ + 1 ELSE @],
     stats |->
        IF ~HasLock(v) THEN stats
        ELSE IF r.result = "true"
        THEN [stats EXCEPT !.completedSessions = @ + 1]
        ELSE IF r.result = "threw"
        THEN [stats EXCEPT !.errors = Append(@, [kind |-> "run", session |-> bp.i])]
        ELSE stats,
     \* the handler's loop has no try/catch: a rejection is unhandled
     crashed |-> v = "handler" /\ r.result = "threw"]

\* Seeded fault: the run itself counts the session once its page is closed.
LandRunCounts(v, bp, r, stats) ==
    IF r.stage = "returned"
    THEN AfterRun(v, bp, r, stats)
    ELSE [bat |-> [bp EXCEPT !.run = r],
          stats |-> IF r.stage = "closeBrowser"
                    THEN [stats EXCEPT !.completedSessions = @ + 1] ELSE stats,
          crashed |-> FALSE]

\* The batch locals and JobStats once the run record has become r.
Land(v, bp, r, stats) ==
    IF r.stage = "returned"
    THEN AfterRun(v, bp, r, stats)
    ELSE [bat |-> [bp EXCEPT !.run = r], stats |-> stats, crashed |-> FALSE]

\* The loop body up to the first suspension of run number i.
BeginRun(v, bp, i, stats) ==
    Land(v, [bp EXCEPT !.pc = "inRun", !.i = i, !.faulty = FALSE,
                       !.attempts = Append(@, i)],
         EnterRun(v), stats)

\* The state changes of a step that moved slot p to landing l.
Landed(p, l) ==
    /\ b' = [b EXCEPT ![p] = l.bat]
    /\ currentJobStats' = l.stats
    /\ phase' = IF l.crashed THEN "exited"
                ELSE IF phase = "connecting" THEN "serving" ELSE phase
    /\ exitCode' = IF l.crashed THEN 1 ELSE exitCode

\* Seeded fault: the finally block leaves the lock set.
UnlockForgotten == TRUE

\* isJobRunning = false in the finally block of the batch function.
Unlocked == FALSE

\* Seeded fault: the process reports failure unless every run succeeded.
SettledExitByRuns(bp) == IF bp.succ = bp.count THEN 0 ELSE 1

\* The callback on the settled batch function of the run-once script and of the
\* handler's loop: process.exit(0), whatever the value and the results.
SettledExit(bp) == 0

\* The batch function returns after the loop: the lock is cleared in the finally
\* block; the run-once script and the handler then end the process with code 0.
Finish(p, bp, stats) ==
    /\ b' = [b EXCEPT ![p] = IdleBatch]
    /\ currentJobStats' = stats
    /\ lastCall' = [kind |-> "completed", value |-> BatchReturn(bp.succ, bp.count),
                    asked |-> bp.asked, count |-> bp.count, succ |-> bp.succ,
                    attempts |-> bp.attempts]
    /\ isJobRunning' = Unlocked
    /\ phase' = IF HasLock(variant) THEN phase ELSE "exited"
    /\ exitCode' = IF HasLock(variant) THEN exitCode ELSE SettledExit(bp)

\* The head of the for loop with loop variable i: run number i up to its first
\* suspension, or the end of the batch. `lock` and `call` are the lock and the call
\* record while the batch goes on.
LoopTop(p, bp, i, stats, lock, call) ==
    IF LoopContinues(i, bp.count)
    THEN /\ Landed(p, BeginRun(variant, bp, i, stats))
         /\ isJobRunning' = lock
         /\ lastCall' = call
    ELSE Finish(p, bp, stats)

\* Seeded fault: a new batch keeps the counts and errors of the one before.
JobStatsMerged(old, t, count) == [old EXCEPT !.startTime = t, !.totalSessions = count]

\* currentJobStats = {...} at the start of a batch: a fresh object.
JobStatsReset(old, t, count) ==
    [startTime |-> t, completedSessions |-> 0, totalSessions |-> count, errors |-> <<>>]

\* The slot a new invocation runs in: the first one not in use.
NextSlot ==
    IF \E p \in Procs : b[p].pc = "idle"
    THEN CHOOSE p \in Procs : b[p].pc = "idle" /\ \A q \in 1..(p - 1) : b[q].pc # "idle"
    ELSE 1

\* runScheduledSessions(type, {sessionCount: n}) up to its first suspension, in
\* slot p; k is the Math.random() sample.
RunScheduledSessions(p, n, k) ==
    IF Busy(isJobRunning)
    THEN /\ lastCall' = [NoCall EXCEPT !.kind = "skipped", !.value = SkipReturn]
         /\ UNCHANGED <<isJobRunning, currentJobStats, batches, b, phase, exitCode>>
    ELSE /\ batches < MaxBatches
         /\ b[p].pc = "idle"
         /\ batches' = batches + 1
         /\ LoopTop(p, [IdleBatch EXCEPT !.asked = Asked(n), !.count = SessionCount(n, k)], 1,
                    JobStatsReset(currentJobStats, batches + 1, SessionCount(n, k)),
                    LockTaken,
                    [NoCall EXCEPT !.kind = "started", !.asked = Asked(n),
                                   !.count = SessionCount(n, k)])

\* ------------------------------------------------------------ startup
\* The environment variables the entry points read: set and well formed, or not.
Envs == [providerKey : BOOLEAN, projectId : BOOLEAN, apiKey : BOOLEAN, domain : BOOLEAN]

\* The variables an entry point looks at. The handler falls back to '' and to a
\* fixed domain; the run-once script has no API key of its own.
EnvRead(v, e) ==
    /\ v = "handler" => (e.providerKey /\ e.projectId /\ e.domain)
    /\ v \in {"handler", "oneshot"} => e.apiKey

\* Seeded fault: the target domain is not validated.
ConfigErrorNoDomain(v, e) ==
    CASE v = "handler"                -> "none"
      [] ~e.providerKey               -> "BROWSERBASE_API_KEY"
      [] ~e.projectId                 -> "BROWSERBASE_PROJECT_ID"
      [] v # "oneshot" /\ ~e.apiKey   -> "API_KEY"
      [] OTHER                        -> "none"

\* The synchronous checks at the top of the module, in order: the first variable
\* that fails, or "none". The handler checks nothing.
ConfigError(v, e) ==
    CASE v = "handler"                -> "none"
      [] ~e.providerKey               -> "BROWSERBASE_API_KEY"
      [] ~e.projectId                 -> "BROWSERBASE_PROJECT_ID"
      [] v # "oneshot" /\ ~e.apiKey   -> "API_KEY"
      [] ~e.domain                    -> "BASE_DOMAIN"
      [] OTHER                        -> "none"

\* The process ends with `code`: the invocations in flight are abandoned where
\* they are; what the process last held in its globals is kept for reference.
Halt(code) ==
    /\ phase' = "exited"
    /\ exitCode' = code
    /\ b' = [p \in Procs |-> IdleBatch]
    /\ waitTime' = 0
    /\ resp' = NoResp
    /\ UNCHANGED <<variant, env, bound, open, utm, device, urls, isJobRunning, currentJobStats,
                   batches, lastCall>>

\* Module evaluation up to the first await: the configuration checks, then the
\* provider is asked to list sessions.
Boot ==
    /\ phase = "boot"
    /\ IF ConfigError(variant, env) # "none"
       THEN Halt(1)
       ELSE /\ phase' = IF variant = "handler" THEN "serving" ELSE "connecting"
            /\ resp' = NoResp
            /\ UNCHANGED <<variant, env, bound, waitTime, open, utm, device, urls, exitCode,
                           isJobRunning, currentJobStats, batches, b, lastCall>>

\* bb.sessions.list rejected: the provider cannot be reached.
ConnectFailed ==
    /\ phase = "connecting"
    /\ Halt(1)

\* bb.sessions.list resolved: routes and schedules are registered and the port
\* is bound.
Listen ==
    /\ phase = "connecting"
    /\ HasLock(variant)
    /\ phase' = "serving"
    /\ bound' = TRUE
    /\ resp' = NoResp
    /\ UNCHANGED <<variant, env, waitTime, open, utm, device, urls, exitCode, isJobRunning,
                   currentJobStats, batches, b, lastCall>>

\* ------------------------------------------------------------ HTTP shell
\* The process answers requests and its timers fire.
Up == phase \in {"serving", "draining"}

Keys == {"good", "bad", "none"}

\* Seeded fault: only a header that is present is compared with the key.
ApiKeyAuthAbsentPasses(key) == key = "none" \/ key = "good"

\* apiKeyAuth: the header must be present and equal to the configured key.
ApiKeyAuth(key) == key # "none" /\ key = "good"

Unauthorized(req) ==
    [req |-> req, status |-> 401, body |-> [status |-> "error", message |-> "Unauthorized"]]

\* sessionCount || 'random(23-52)' in the 202 body.
CountLabel(n) ==
    IF Truthy(n) THEN [text |-> "", n |-> n] ELSE [text |-> "random(23-52)", n |-> 0]

\* The maxConcurrent values of a trigger body; 0 stands for an absent one.
Concurrencies == 0..MaxConc

\* const { sessionCount, maxConcurrent = 1 } = req.body
MaxConcurrent(m) == IF m = 0 THEN 1 ELSE m

\* Seeded fault: the batch runs maxConcurrent times the requested count.
OptionsCountScaled(opts) == opts.sessionCount * opts.maxConcurrent

\* What the batch function reads of its options object: options.sessionCount.
OptionsCount(opts) == opts.sessionCount

\* Seeded fault: the trigger handler takes the job to be over once its last run
\* has returned.
TriggerBusyWhileRunsLeft(lock) ==
    lock /\ \E p \in Procs : b[p].pc = "inRun" \/ (b[p].pc = "delay" /\ b[p].i < b[p].count)

\* Seeded fault: the trigger handler's lock check is inverted.
TriggerBusyInverted(lock) == ~lock

\* Seeded fault: the trigger handler does not look at the lock.
TriggerBusyNever(lock) == FALSE

\* The trigger handler's own lock check.
TriggerBusy(lock) == lock

\* What no request, timer or run step changes.
Fixed == <<variant, env, bound, waitTime, utm, device, urls>>

\* Requests are served between any two steps of a run. Their arrival is sampled:
\* while no run is in flight (idle, or in the delay after a run, where every
\* value of JobStats shows) and while the run in flight awaits one of these.
WatchStages == {"create", "loginNav", "release"}

Arrives == \A p \in Procs : b[p].pc = "inRun" => b[p].run.stage \in WatchStages

\* POST /trigger-sessions with x-api-key `key` and body {sessionCount: n,
\* maxConcurrent: m}. apiKeyAuth answers before the body is looked at, so the
\* requests without the key are enumerated with an empty body only.
TriggerSessions(key, n, m) ==
    /\ Up
    /\ HasLock(variant)
    /\ Arrives
    /\ IF ~ApiKeyAuth(key)
       THEN /\ resp' = Unauthorized("trigger")
            /\ UNCHANGED <<isJobRunning, currentJobStats, batches, b, lastCall,
                           phase, exitCode>>
       ELSE IF TriggerBusy(isJobRunning)
       THEN /\ resp' = [req |-> "trigger", status |-> 409,
                        body |-> [status |-> "error",
                                  message |-> "Another job is already running",
                                  currentJob |-> currentJobStats]]
            /\ UNCHANGED <<isJobRunning, currentJobStats, batches, b, lastCall,
                           phase, exitCode>>
       ELSE /\ \E k \in RandSamples :
                  RunScheduledSessions(NextSlot,
                      OptionsCount([sessionCount |-> n,
                                    maxConcurrent |-> MaxConcurrent(m)]), k)
            /\ resp' = [req |-> "trigger", status |-> 202,
                        sent |-> [sessionCount |-> n],
                        body |-> [status |-> "accepted",
                                  message |-> "Session simulation started",
                                  config |-> [sessionCount |-> CountLabel(n),
                                              maxConcurrent |-> MaxConcurrent(m)]]]
    /\ UNCHANGED <<Fixed, open>>

\* JSON null.
Null == [null |-> TRUE]

\* The response of GET /status: 401 without the key; else the lock, and the
\* JobStats only while the lock is held. The single-file server reports the lock
\* as 'running' or 'idle'.
StatusResponse(v, key, lock, stats) ==
    IF ~ApiKeyAuth(key) THEN Unauthorized("status")
    ELSE IF v = "server"
    THEN [req |-> "status", status |-> 200,
          body |-> [isJobRunning |-> lock,
                    currentJob |-> IF lock THEN stats ELSE Null]]
    ELSE [req |-> "status", status |-> 200,
          body |-> [status |-> IF lock THEN "running" ELSE "idle",
                    currentJob |-> IF lock THEN stats ELSE Null]]

\* GET /status with x-api-key `key`.
Status(key) ==
    /\ Up
    /\ HasLock(variant)
    /\ Arrives
    /\ resp' = StatusResponse(variant, key, isJobRunning, currentJobStats)
    /\ UNCHANGED <<Fixed, open, isJobRunning, currentJobStats, batches, b, lastCall,
                   phase, exitCode>>

\* GET /health: no key is asked for.
Health ==
    /\ Up
    /\ HasLock(variant)
    /\ Arrives
    /\ resp' = [req |-> "health", status |-> 200,
                body |-> [status |-> "healthy", isJobRunning |-> isJobRunning]]
    /\ UNCHANGED <<Fixed, open, isJobRunning, currentJobStats, batches, b, lastCall,
                   phase, exitCode>>

\* A cron schedule fires: runScheduledSessions(type) with no options; k is the
\* Math.random() sample of the count.
CronFireAt(k) ==
    /\ Up
    /\ HasCron(variant)
    /\ RunScheduledSessions(NextSlot, Absent, k)
    /\ resp' = NoResp
    /\ UNCHANGED <<Fixed, open>>

CronFire == \E k \in RandSamples : CronFireAt(k)

\* The run-once script: bb.sessions.list resolved and the batch function is
\* called once, with a random count.
OneShotStart ==
    /\ phase = "connecting"
    /\ variant = "oneshot"
    /\ batches = 0
    /\ \E k \in RandSamples :
          /\ batches' = 1
          /\ LoopTop(1, [IdleBatch EXCEPT !.count = RandomCount(k)], 1,
                     currentJobStats, isJobRunning,
                     [NoCall EXCEPT !.kind = "started", !.count = RandomCount(k)])
    /\ resp' = NoResp
    /\ UNCHANGED <<Fixed, open>>

\* The serverless handler is invoked: it starts its loop without awaiting it and
\* answers 200 at once. One invocation per process is in flight at a time (the
\* loop ends the process when it is done).
HandlerInvoke ==
    /\ phase = "serving"
    /\ variant = "handler"
    /\ batches < MaxBatches
    /\ \A q \in Procs : b[q].pc = "idle"
    /\ \E k \in RandSamples :
          /\ batches' = batches + 1
          /\ LoopTop(1, [IdleBatch EXCEPT !.count = RandomCount(k)], 1,
                     currentJobStats, isJobRunning,
                     [NoCall EXCEPT !.kind = "started", !.count = RandomCount(k)])
    /\ resp' = [req |-> "handler", status |-> 200,
                body |-> [message |-> "Cron job executed successfully"]]
    /\ UNCHANGED <<Fixed, open>>

\* The operation awaited by the run in slot p settles with outcome o.
RunStep(p, o) ==
    /\ Up
    /\ b[p].pc = "inRun"
    /\ o \in Outcomes(b[p].run.stage) \cup ClickOutcomes(variant, b[p].run.stage)
    /\ Upset(o) => (b[p].faulty \/ b[p].faults < MaxFaults)
    /\ Landed(p, Land(variant,
                      [b[p] EXCEPT !.faults = IF Upset(o) /\ ~b[p].faulty
                                              THEN @ + 1 ELSE @,
                                   !.faulty = @ \/ Upset(o)],
                      StepRun(variant, b[p].run, b[p].i, o), currentJobStats))
    /\ open' = OpenAfter(open, b[p].run, StepRun(variant, b[p].run, b[p].i, o))
    /\ resp' = NoResp
    /\ UNCHANGED <<Fixed, isJobRunning, batches, lastCall>>

\* The delay after a run has elapsed: i++ and back to the head of the loop.
DelayElapsed(p) ==
    /\ Up
    /\ b[p].pc = "delay"
    /\ LoopTop(p, [b[p] EXCEPT !.run = NoRun], b[p].i + 1, currentJobStats,
               isJobRunning, lastCall)
    /\ resp' = NoResp
    /\ UNCHANGED <<Fixed, open, batches>>

\* ------------------------------------------------------------ shutdown
\* SIGTERM arrives. With the handler registered: exit at once when the lock is
\* clear, else start polling. Without a handler (or before it is registered) the
\* process is ended by the signal. A second signal during the drain is not
\* modelled.
Sigterm ==
    /\ phase \in {"connecting", "serving"}
    /\ IF HasShutdown(variant) /\ phase = "serving"
       THEN IF isJobRunning
            THEN /\ phase' = "draining"
                 /\ waitTime' = 0
                 /\ resp' = NoResp
                 /\ UNCHANGED <<variant, env, bound, open, utm, device, urls, exitCode, isJobRunning,
                                currentJobStats, batches, b, lastCall>>
            ELSE Halt(0)
       ELSE Halt(KilledBySignal)

\* The values of waitTime at which the drain is observed: after the first poll,
\* before the last one and at the ceiling. The polls in between find the lock
\* held and only add to waitTime.
PollSamples == {PollMs, DrainCeilingMs - PollMs, DrainCeilingMs}

\* while (isJobRunning && waitTime < 300000)
DrainGoesOn(lock, w) == lock /\ w < DrainCeilingMs

\* The drain's timer fires with waitTime grown to w: poll again or exit.
DrainPoll(w) ==
    /\ phase = "draining"
    /\ w > waitTime
    /\ IF DrainGoesOn(isJobRunning, w)
       THEN /\ waitTime' = w
            /\ resp' = NoResp
            /\ UNCHANGED <<variant, env, phase, bound, open, utm, device, urls, exitCode, isJobRunning,
                           currentJobStats, batches, b, lastCall>>
       ELSE Halt(0)

\* ------------------------------------------------------------ generators
\* The values Math.random() takes in the generators: k / DrawDen.
Draws == 0..(DrawDen - 1)

\* list[Math.floor(Math.random() * list.length)]
Pick(list, k) == list[(k * Len(list)) \div DrawDen + 1]

\* The handler's copy of generateUtm has no "chatgpt" source.
Sources(v) ==
    IF v = "handler"
    THEN <<"google", "facebook", "twitter", "direct", "email">>
    ELSE <<"google", "chatgpt", "facebook", "twitter", "direct", "email">>

Campaigns == <<"winter2024", "socialads", "emailblast", "organic">>

Mediums == <<"search", "social", "cpc", "email", "organic">>

SearchTerms ==
    <<"movie streaming", "watch movies online", "best streaming service", "new movies">>

\* Seeded fault: the term is added for every medium but organic traffic.
HasTermUnlessOrganic(medium) == medium # "organic"

\* if (utm_medium === "search")
HasTerm(medium) == medium = "search"

\* generateUtm() with the draws km, ks, kc, kt for medium, source, campaign, term.
GenerateUtm(v, km, ks, kc, kt) ==
    LET params == [utm_source |-> Pick(Sources(v), ks),
                   utm_medium |-> Pick(Mediums, km),
                   utm_campaign |-> Pick(Campaigns, kc)]
    IN  IF HasTerm(params.utm_medium)
        THEN [utm_source |-> params.utm_source,
              utm_medium |-> params.utm_medium,
              utm_campaign |-> params.utm_campaign,
              utm_term |-> Pick(SearchTerms, kt)]
        ELSE params

\* Object.values(DEVICE_TYPES), in declaration order.
DeviceTypes == <<"desktop", "tablet", "mobile">>

\* const mobileTypes = ['iphone', 'android']
MobileTypes == <<"iphone", "android">>

\* deviceConfigs; deviceScaleFactor in hundredths.
DeviceConfigs ==
    [desktop |-> [viewport |-> [width |-> 1920, height |-> 1080],
                  deviceScaleFactor |-> 100, isMobile |-> FALSE, hasTouch |-> FALSE],
     tablet  |-> [viewport |-> [width |-> 1024, height |-> 768],
                  deviceScaleFactor |-> 200, isMobile |-> TRUE, hasTouch |-> TRUE],
     mobile  |->
        [iphone  |-> [userAgent |-> "Mozilla/5.0 (iPhone; CPU iPhone OS 14_4 like Mac OS X)",
                      viewport |-> [width |-> 390, height |-> 844],
                      deviceScaleFactor |-> 300, isMobile |-> TRUE, hasTouch |-> TRUE],
         android |-> [userAgent |-> "Mozilla/5.0 (Linux; Android 12; Pixel 6)",
                      viewport |-> [width |-> 393, height |-> 851],
                      deviceScaleFactor |-> 275, isMobile |-> TRUE, hasTouch |-> TRUE]]]

\* Seeded fault: every touch device is sent to the mobile table.
IsMobileOrTablet(t) == t # "desktop"

\* if (randomDeviceType === DEVICE_TYPES.MOBILE)
IsMobile(t) == t = "mobile"

\* randomizeBrowser with the two Math.random() draws kd / DrawDen and km / DrawDen.
RandomizeBrowser(kd, km) ==
    LET randomDeviceType == Pick(DeviceTypes, kd)
    IN  [browserType |-> "chromium",
         deviceType |-> randomDeviceType,
         deviceConfig |-> IF IsMobile(randomDeviceType)
                          THEN DeviceConfigs.mobile[Pick(MobileTypes, km)]
                          ELSE DeviceConfigs[randomDeviceType]]

NoDevice == [browserType |-> "", deviceType |-> ""]

\* A call of the handler's randomizeBrowser.
RandomizeBrowserCall(kd, km) ==
    /\ variant = "handler"
    /\ device' = RandomizeBrowser(kd, km)
    /\ UNCHANGED <<variant, env, phase, bound, waitTime, open, utm, urls, exitCode,
                   isJobRunning, currentJobStats, batches, b, resp, lastCall>>

NoUtm == [utm_source |-> "", utm_medium |-> "", utm_campaign |-> ""]

\* `${utmParams.utm_term ? '&utm_term=' + utmParams.utm_term : ''}`: the
\* parameter is appended when the property is there and not empty.
TermSuffix(params) ==
    IF "utm_term" \in DOMAIN params /\ params.utm_term # ""
    THEN <<[name |-> "utm_term", value |-> params.utm_term]>>
    ELSE <<>>

\* Seeded fault: the first navigation carries the search term as well.
LandingUrlWithTerm(params) ==
    <<[name |-> "utm_source", value |-> params.utm_source],
      [name |-> "utm_medium", value |-> params.utm_medium],
      [name |-> "utm_campaign", value |-> params.utm_campaign]>> \o TermSuffix(params)

\* The query string of the URL of page.goto at the start of the journey.
LandingUrl(params) ==
    <<[name |-> "utm_source", value |-> params.utm_source],
      [name |-> "utm_medium", value |-> params.utm_medium],
      [name |-> "utm_campaign", value |-> params.utm_campaign]>>

\* The query string of fullUrl, written to the completion log.
FullUrl(params) ==
    <<[name |-> "utm_source", value |-> params.utm_source],
      [name |-> "utm_medium", value |-> params.utm_medium],
      [name |-> "utm_campaign", value |-> params.utm_campaign]>> \o TermSuffix(params)

NoUrls == [landing |-> <<>>, log |-> <<>>]

\* A run builds its two URLs from its utmParams.
BuildUrls ==
    /\ utm # NoUtm
    /\ urls = NoUrls
    /\ urls' = [landing |-> LandingUrl(utm), log |-> FullUrl(utm)]
    /\ UNCHANGED <<variant, env, phase, bound, waitTime, open, utm, device, exitCode,
                   isJobRunning, currentJobStats, batches, b, resp, lastCall>>

\* A call of generateUtm, at the start of a run: no URL is built yet.
GenerateUtmCall(km, ks, kc, kt) ==
    /\ utm' = GenerateUtm(variant, km, ks, kc, kt)
    /\ urls' = NoUrls
    /\ UNCHANGED <<variant, env, phase, bound, waitTime, open, device, exitCode, isJobRunning,
                   currentJobStats, batches, b, resp, lastCall>>

Init ==
    /\ variant \in Variants
    /\ env \in {e \in Envs : EnvRead(variant, e)}
    /\ phase = "boot"
    /\ bound = FALSE
    /\ waitTime = 0
    /\ open = 0
    /\ utm = NoUtm
    /\ device = NoDevice
    /\ urls = NoUrls
    /\ exitCode = -1
    /\ isJobRunning = FALSE
    /\ currentJobStats = NoStats
    /\ batches = 0
    /\ b = [p \in Procs |-> IdleBatch]
    /\ resp = NoResp
    /\ lastCall = NoCall

Next ==
    \/ Boot
    \/ ConnectFailed
    \/ Listen
    \/ \E n \in Counts : \E m \in Concurrencies : TriggerSessions("good", n, m)
    \/ \E key \in Keys \ {"good"} : TriggerSessions(key, 0, 0)
    \/ \E key \in Keys : Status(key)
    \/ Health
    \/ CronFire
    \/ OneShotStart
    \/ HandlerInvoke
    \/ \E p \in Procs : \E o \in {"ok", "fail", "skip", "banner", "miss"} : RunStep(p, o)
    \/ \E p \in Procs : DelayElapsed(p)
    \/ Sigterm
    \/ \E w \in PollSamples : DrainPoll(w)

Spec == Init /\ [][Next]_vars

\* The runs and delays of a batch terminate: an awaited operation or timer that
\* can settle eventually does.
Fairness ==
    \A p \in Procs :
        /\ WF_vars(\E o \in {"ok", "skip"} : RunStep(p, o))
        /\ WF_vars(DelayElapsed(p))

FairSpec == Spec /\ Fairness

\* The generators on their own: every combination of draws, in every entry point.
UtmInit == Init /\ \A f \in DOMAIN env : env[f]

UtmNext ==
    \/ \E km \in Draws, ks \in Draws, kc \in Draws, kt \in Draws :
          GenerateUtmCall(km, ks, kc, kt)
    \/ BuildUrls

UtmSpec == UtmInit /\ [][UtmNext]_vars

\* The random draws on their own: the run count of a batch started without one
\* at every sample k / RandDen, and every pair of draws of randomizeBrowser.
DrawNext ==
    \/ Boot
    \/ Listen
    \/ \E k \in 0..(RandDen - 1) : CronFireAt(k)
    \/ \E n \in Counts : \E m \in Concurrencies : TriggerSessions("good", n, m)
    \/ \E kd \in Draws : \E km \in Draws : RandomizeBrowserCall(kd, km)

DrawSpec == UtmInit /\ [][DrawNext]_vars

\* ------------------------------------------------------------ properties
Active(p) == b[p].pc # "idle"

InOrder(n) == [k \in 1..n |-> k]

\* C1: with the lock, at most one invocation of the batch function is inside its
\* run loop in any reachable state, whatever the interleaving of triggers and cron.
C1_AtMostOneBatch ==
    HasLock(variant) => Cardinality({p \in Procs : Active(p)}) <= 1

\* A cron firing was refused while the second run of a batch was waiting out its delay.
C1_Witness ==
    /\ lastCall.kind = "skipped"
    /\ \E p \in Procs : b[p].pc = "delay" /\ b[p].i = 2

\* C2: an authenticated trigger received while the lock is held is answered 409
\* with the current JobStats and changes neither JobStats, the lock nor any batch.
C2_TriggerWhileRunning ==
    [][(isJobRunning /\ resp'.req = "trigger"
          /\ \E n \in 0..MaxCount : \E m \in Concurrencies : TriggerSessions("good", n, m))
       => /\ resp'.status = 409
          /\ resp'.body.currentJob = currentJobStats
          /\ UNCHANGED <<isJobRunning, currentJobStats, b, batches, lastCall>>]_vars

\* A 409 was written while a run of the in-flight batch had completed its signup.
C2_Witness ==
    /\ resp.req = "trigger" /\ resp.status = 409
    /\ isJobRunning
    /\ resp.body.currentJob.totalSessions = MaxCount
    /\ \E p \in Procs : b[p].pc = "inRun" /\ b[p].run.stage = "loginNav"

\* C3: the lock is held in every state in which a batch is between its start and
\* its end, and a held lock is eventually cleared by every batch that is not cut
\* short by the end of the process.
C3_LockLifecycle ==
    /\ [](HasLock(variant) => \A p \in Procs : Active(p) => isJobRunning)
    /\ (isJobRunning ~> (~isJobRunning \/ phase = "exited"))

\* A batch with a failed run has ended and the lock is clear.
C3_Witness ==
    /\ HasLock(variant)
    /\ lastCall.kind = "completed"
    /\ lastCall.succ < lastCall.count
    /\ lastCall.succ > 0
    /\ ~isJobRunning

\* C4: a run never rejects: it settles with a boolean, and with false whenever a
\* stage failed.
C4_RunNeverThrows ==
    \A p \in Procs :
        /\ b[p].run.result # "threw"
        /\ b[p].run.stage = "returned" =>
              /\ b[p].run.result \in {"true", "false"}
              /\ b[p].run.failed => b[p].run.result = "false"
              /\ ~b[p].run.failed => b[p].run.result = "true"

\* A run failed after it had acquired a session, and has returned false.
C4_Witness ==
    \E p \in Procs :
        /\ b[p].run.stage = "returned"
        /\ b[p].run.failed
        /\ b[p].run.session # 0
        /\ b[p].run.result = "false"

\* C5: a run that acquired a session has made exactly one release request when
\* it returns.
C5_ExactlyOneRelease ==
    \A p \in Procs :
        (b[p].run.stage = "returned" /\ b[p].run.session # 0) => b[p].run.releases = 1

\* C6: a failing release request leaves the run's result as the stages decided
\* it and is not propagated.
C6_ReleaseFailureSwallowed ==
    \A p \in Procs :
        (b[p].run.stage = "returned" /\ b[p].run.relFailed) =>
            b[p].run.result = (IF b[p].run.failed THEN "false" ELSE "true")

\* Every stage succeeded, the release request failed, and the run returned true.
C6_Witness ==
    \E p \in Procs :
        /\ b[p].run.stage = "returned"
        /\ b[p].run.relFailed
        /\ ~b[p].run.failed
        /\ b[p].run.result = "true"

\* C7: a batch configured with count N attempts runs 1..N, each once and in order,
\* and counts at most N successes.
C7_ExactlyNRuns ==
    /\ \A p \in Procs :
          (Active(p) /\ b[p].asked # 0) =>
              /\ b[p].count = b[p].asked
              /\ b[p].i <= b[p].asked
              /\ b[p].attempts = InOrder(b[p].i)
    /\ (lastCall.kind = "completed" /\ lastCall.asked # 0) =>
          /\ lastCall.attempts = InOrder(lastCall.asked)
          /\ lastCall.succ <= lastCall.asked

\* A batch configured with the largest count has completed.
C7_Witness ==
    /\ lastCall.kind = "completed"
    /\ lastCall.asked = MaxCount
    /\ lastCall.succ = MaxCount

\* Position of a stage in the order of a run.
StageRank(v, s) ==
    CASE s = "modalRemove" -> 2 * StageIndex(v, "modalClose") + 1
      [] s = "release"     -> 2 * Len(Stages(v)) + 2
      [] s = "returned"    -> 2 * Len(Stages(v)) + 3
      [] s = "none"        -> 0
      [] OTHER             -> 2 * StageIndex(v, s)

\* C8: a failed run does not end the batch: after its delay the next run starts,
\* every run of the batch is attempted, and within a run no stage is entered
\* twice (as long as the process itself is not ended).
C8_FailureDoesNotAbort ==
    /\ [](lastCall.kind = "completed" => lastCall.attempts = InOrder(lastCall.count))
    /\ [][\A p \in Procs :
            /\ (b[p].pc = "delay" /\ b[p].run.result # "true"
                  /\ b[p].i < b[p].count /\ b'[p] # b[p] /\ phase' # "exited")
               => (b'[p].i = b[p].i + 1 /\ b'[p].pc # "idle"
                     /\ b'[p].attempts = Append(b[p].attempts, b[p].i + 1))
            /\ (b[p].pc = "inRun" /\ b'[p].i = b[p].i /\ b'[p].run # b[p].run
                  /\ phase' # "exited")
               => StageRank(variant, b'[p].run.stage) > StageRank(variant, b[p].run.stage)
         ]_vars

\* Run 1 failed after acquiring its session and run 2 is under way.
C8_Witness ==
    \E p \in Procs :
        /\ variant = "server"
        /\ b[p].pc = "inRun"
        /\ b[p].i = 2
        /\ b[p].nres = 1
        /\ b[p].succ = 0
        /\ b[p].run.stage = "connect"

\* C9: a batch that started returns true whatever its runs did; false is returned
\* only by an invocation that did not run a batch to its end.
C9_BatchReturnsTrue ==
    /\ lastCall.kind = "completed" => lastCall.value = "true"
    /\ lastCall.value = "false" => lastCall.kind # "completed"
    /\ (phase = "exited" /\ batches > 0) => exitCode \in {0, KilledBySignal}

\* A batch all of whose runs failed has returned true and the process goes on.
C9_Witness ==
    /\ variant = "server"
    /\ lastCall.kind = "completed"
    /\ lastCall.succ = 0
    /\ lastCall.value = "true"
    /\ phase = "serving"
    /\ exitCode = -1

\* C10: the value of an invocation refused because a batch is in progress differs
\* from the value of a batch that started and failed.
C10_SkipDistinct ==
    lastCall.kind = "skipped" => lastCall.value # BatchFailReturn

\* C11: once a batch triggered with sessionCount 1 has completed, an authenticated
\* GET /status reports the lock clear and a currentJob showing the finished
\* batch: totalSessions 1 and completedSessions as the run turned out.
C11_StatusAfterBatch ==
    (/\ resp.req = "status" /\ resp.status = 200
     /\ lastCall.kind = "completed" /\ lastCall.asked = 1
     /\ ~isJobRunning)
    => /\ IF variant = "server" THEN resp.body.isJobRunning = FALSE
                                ELSE resp.body.status = "idle"
       /\ resp.body.currentJob # Null
       /\ resp.body.currentJob.totalSessions = 1
       /\ resp.body.currentJob.completedSessions = lastCall.succ

\* C12: a /status or /trigger-sessions request without the configured key is
\* answered 401 and changes nothing: no batch, lock and JobStats as before,
\* whether a batch is running or not.
C12_UnauthorizedNoEffect ==
    [][\A key \in {"bad", "none"} :
          (\/ resp'.req = "status" /\ Status(key)
           \/ resp'.req = "trigger" /\ TriggerSessions(key, 0, 0))
          => /\ resp'.status = 401
             /\ resp'.body = [status |-> "error", message |-> "Unauthorized"]
             /\ UNCHANGED <<isJobRunning, currentJobStats, b, batches, lastCall, open,
                            phase, exitCode>>]_vars

\* A /status request without a key was refused while a run was in flight.
C12_Witness ==
    /\ resp.req = "status" /\ resp.status = 401
    /\ isJobRunning
    /\ \E p \in Procs : b[p].pc = "inRun" /\ b[p].run.stage = "loginNav"

\* C13: when the 202 of an accepted trigger is written no run of its batch has
\* finished, and the response carries nothing of the batch's outcome.
C13_AcceptedBeforeRuns ==
    (resp.req = "trigger" /\ resp.status = 202)
    => /\ DOMAIN resp.body = {"status", "message", "config"}
       /\ currentJobStats.completedSessions = 0
       /\ currentJobStats.errors = <<>>
       /\ \A p \in Procs : b[p].nres = 0 /\ b[p].run.result = "none"

\* The environment passes every check of the service shell.
EnvGood == env.providerKey /\ env.projectId /\ env.apiKey /\ env.domain

\* C14: the port is bound only once the configuration checks and the provider
\* check have passed; with a provider key, project id or service key missing, a
\* malformed target domain or an unreachable provider the process exits non-zero
\* and has neither bound the port nor started a batch.
C14_StartupOrdering ==
    /\ bound => (EnvGood /\ phase \notin {"boot", "connecting"})
    /\ (HasLock(variant) /\ batches > 0) => bound
    /\ (HasLock(variant) /\ ~EnvGood) =>
          /\ ~bound /\ batches = 0
          /\ phase \in {"boot", "exited"}
          /\ phase = "exited" => exitCode = 1
    /\ exitCode = 1 => (~bound /\ batches = 0 /\ phase = "exited")
    /\ (HasLock(variant) /\ phase = "exited" /\ ~bound) => exitCode # 0

\* The service shell was started with a malformed target domain and has exited
\* with code 1 before binding the port.
C14_Witness ==
    /\ variant = "server"
    /\ env.providerKey /\ env.projectId /\ env.apiKey /\ ~env.domain
    /\ phase = "exited" /\ exitCode = 1
    /\ ~bound /\ batches = 0

\* C15: on SIGTERM a service shell exits at once when no batch is running and
\* otherwise polls the lock, leaving as soon as a poll finds it clear or the
\* ceiling of 300 polls is reached.
C15_SigtermDrains ==
    [][/\ (phase = "serving" /\ HasLock(variant) /\ Sigterm)
          => IF isJobRunning THEN phase' = "draining" /\ waitTime' = 0
                             ELSE phase' = "exited"
       /\ (phase = "draining" /\ \E w \in PollSamples : DrainPoll(w))
          => IF isJobRunning /\ waitTime' < DrainCeilingMs /\ waitTime' # 0
             THEN phase' = "draining"
             ELSE phase' = "exited" /\ exitCode' = 0
      ]_vars

\* C16: every run the batch runner attempts has issued one session-create request
\* before anything else, and a run whose session was created goes on to connect.
C16_RunAcquiresSession ==
    \A p \in Procs :
        /\ b[p].run.stage # "none" => b[p].run.creates = 1
        /\ (b[p].run.session # 0 /\ ~b[p].run.failed /\ b[p].run.stage # "returned")
              => StageRank(variant, b[p].run.stage) >= StageRank(variant, "connect")

\* C17: a result of generateUtm carries utm_term exactly when its medium is
\* "search", and the term is then one of the fixed search terms.
C17_TermIffSearch ==
    utm # NoUtm =>
        /\ ("utm_term" \in DOMAIN utm) <=> (utm.utm_medium = "search")
        /\ "utm_term" \in DOMAIN utm =>
              \E k \in 1..Len(SearchTerms) : utm.utm_term = SearchTerms[k]
        /\ \E k \in 1..Len(Mediums) : utm.utm_medium = Mediums[k]

\* A search result with the last of the search terms.
C17_Witness ==
    /\ utm # NoUtm
    /\ utm.utm_medium = "search"
    /\ "utm_term" \in DOMAIN utm
    /\ utm.utm_term = SearchTerms[Len(SearchTerms)]

\* C18: the batch an accepted trigger starts is decided by sessionCount and the
\* random draw alone, whatever maxConcurrent is, and at most one run is in
\* flight at any time.
C18_MaxConcurrentIgnored ==
    /\ [](HasLock(variant) => Cardinality({p \in Procs : b[p].pc = "inRun"}) <= 1)
    /\ [][\A n \in 0..MaxCount : \A m \in Concurrencies :
            (~isJobRunning /\ resp'.status = 202 /\ TriggerSessions("good", n, m))
            => \E k \in RandSamples :
                  /\ b'[NextSlot].count = SessionCount(n, k)
                  /\ b'[NextSlot].attempts = <<1>>
                  /\ b'[NextSlot].i = 1
                  /\ currentJobStats'.totalSessions = SessionCount(n, k)
                  /\ currentJobStats'.completedSessions = 0
                  /\ isJobRunning'
                  /\ \A q \in Procs \ {NextSlot} : b'[q] = b[q]
         ]_vars

\* A trigger asking for one session at the largest maxConcurrent started a batch
\* of one run.
C18_Witness ==
    /\ resp.req = "trigger" /\ resp.status = 202
    /\ resp.body.config.maxConcurrent = MaxConc
    /\ \E p \in Procs :
          b[p].pc = "inRun" /\ b[p].count = 1 /\ b[p].attempts = <<1>>
    /\ currentJobStats.totalSessions = 1

\* C19: a trigger answered 202 has started a batch of its own: its call of the
\* batch function found the lock clear and took it in the same step.
C19_AcceptedStartsBatch ==
    [][(resp'.status = 202
          /\ \E n \in 0..MaxCount : \E m \in Concurrencies : TriggerSessions("good", n, m))
       => /\ ~isJobRunning /\ isJobRunning'
          /\ lastCall'.kind = "started"
          /\ batches' = batches + 1
          /\ \E p \in Procs : ~Active(p) /\ b'[p].pc # "idle"
      ]_vars

\* The second batch of a process with cron schedules was started by a trigger.
C19_Witness ==
    /\ variant = "monolith"
    /\ resp.req = "trigger" /\ resp.status = 202
    /\ batches = MaxBatches
    /\ lastCall.kind = "started"
    /\ isJobRunning

\* C20: runs do not overlap and at most one provider session is acquired and not
\* yet asked to be released.
C20_OneSessionOutstanding ==
    /\ Cardinality({p \in Procs : b[p].pc = "inRun"}) <= 1
    /\ open <= 1

\* C21: a release request is issued only for a session that was acquired: a run
\* whose session-create call threw, or that failed before it, issues no release
\* request and returns false.
C21_ReleaseOnlyAcquired ==
    \A p \in Procs :
        /\ b[p].run.stage = "release" => b[p].run.session # 0
        /\ b[p].run.releases > 0 => b[p].run.session # 0
        /\ (b[p].run.stage = "returned" /\ b[p].run.session = 0)
              => b[p].run.releases = 0 /\ b[p].run.result = "false"

\* The create call of a run of the session server threw: the run returned false
\* without a release request.
C21_Witness ==
    /\ variant = "server"
    /\ \E p \in Procs :
          /\ b[p].pc = "delay"
          /\ b[p].run.creates = 1 /\ b[p].run.session = 0
          /\ b[p].run.releases = 0 /\ b[p].run.result = "false"

\* The numbered stage of the journey an awaited operation belongs to: acquire,
\* device setup, landing, signup, login, playback, logout, teardown.
StagePhase(s) ==
    CASE s \in {"create", "connect"}                                    -> 1
      [] s \in {"viewport", "userAgent"}                                -> 2
      [] s \in {"landing", "interstitial"}                              -> 3
      [] s \in {"signupNav", "signupForm", "checkbox", "planSelect",
                "signupSubmit"}                                         -> 4
      [] s \in {"loginNav", "csrf", "loginSubmit", "bannerCheck"}       -> 5
      [] s \in {"homeNav", "modalCheck", "modalClose", "modalRemove",
                "movieClick"}                                           -> 6
      [] s \in {"dropdown", "logout"}                                   -> 7
      [] s \in {"closePage", "closeBrowser"}                            -> 8
      [] OTHER                                                          -> 9

\* C22: the stages of a run execute in the fixed order acquire, device setup,
\* landing, signup, login, playback, logout; a fault at a stage other than the
\* locally recovered ones ends the run at once with false and nothing of a later
\* stage; and the next run of the batch starts afresh: at acquisition, holding
\* no session.
C22_StagesInOrder ==
    [][\A p \in Procs :
         LET r  == b[p].run
             r1 == b'[p].run
         IN  /\ (b[p].pc = "inRun" /\ b'[p].pc # "idle" /\ b'[p] # b[p]
                   /\ r.stage # "release")
                   => /\ r1.stage \notin {"release", "returned"}
                           => /\ StageRank(variant, r1.stage) > StageRank(variant, r.stage)
                              /\ StagePhase(r1.stage) \in
                                    {StagePhase(r.stage), StagePhase(r.stage) + 1}
                      /\ ((\E o \in {"fail", "banner"} : RunStep(p, o))
                            /\ r.stage \notin {"userAgent", "interstitial", "csrf",
                                                "modalClose"})
                           => /\ r1.stage \in {"release", "returned"}
                              /\ r1.result = "false"
                      /\ r1.result = "true" => r.stage = LastStage(variant)
             /\ (b[p].pc = "delay" /\ b'[p].pc # "idle" /\ b'[p] # b[p])
                   => /\ b'[p].i = b[p].i + 1
                      /\ r1.session = 0 /\ r1.releases = 0
                      /\ \/ r1.stage = "create"
                         \/ r1.stage = "returned" /\ r1.creates = 0 /\ r1.result = "false"
      ]_vars

\* The first run of a batch failed and the second one is at its create call.
C22_Witness ==
    \E p \in Procs :
        /\ b[p].pc = "inRun" /\ b[p].i = 2
        /\ b[p].run.stage = "create"
        /\ b[p].nres = 1 /\ b[p].succ = 0 /\ b[p].faults = 1

\* C23: when the error banner is found after the login form was submitted, the
\* run fails: its result is false, nothing of playback or logout is done, and
\* its next operation is the release request for its session.
C23_BannerFailsRun ==
    [][\A p \in Procs :
         (b[p].pc = "inRun" /\ b[p].run.stage = "bannerCheck" /\ RunStep(p, "banner"))
         => /\ b'[p].run.result = "false"
            /\ b'[p].pc = "inRun"
            /\ b'[p].run.stage = "release"
            /\ b'[p].run.session = b[p].i
      ]_vars

\* C24: the locally recovered conditions never fail a run by themselves: when
\* setting the user-agent header throws, the interstitial is absent or no CSRF
\* token can be read, the run goes on with the following operation, and a run
\* that no other stage failed returns true.
C24_RecoveredNeverFail ==
    /\ [](\A p \in Procs :
            (b[p].run.stage = "returned" /\ ~b[p].run.failed) => b[p].run.result = "true")
    /\ [][\A p \in Procs :
            (b[p].pc = "inRun"
               /\ b[p].run.stage \in {"userAgent", "interstitial", "csrf"}
               /\ RunStep(p, "fail"))
            => /\ ~b'[p].run.failed
               /\ b'[p].pc = "inRun"
               /\ b'[p].run.result = "none"
               /\ b'[p].run.stage =
                     Stages(variant)[StageIndex(variant, b[p].run.stage) + 1]
         ]_vars

\* C25: naturalClick never returns normally with its target element left
\* unclicked, so a run that returned true has performed every click of the
\* journey: plan selection, signup submit, the movie click and the logout click.
C25_ClicksPerformed ==
    \A p \in Procs :
        /\ ~b[p].run.unclicked
        /\ b[p].run.result = "true" => ~b[p].run.unclicked

\* C26: JobStats is reset, not merged, at the start of every batch: in the state
\* where a batch has just started completedSessions is 0, errors is empty and
\* totalSessions is that batch's run count, whatever the batch before left.
C26_StatsReset ==
    [][(HasLock(variant) /\ batches' = batches + 1)
       => /\ currentJobStats'.completedSessions = 0
          /\ currentJobStats'.errors = <<>>
          /\ currentJobStats'.totalSessions = lastCall'.count
          /\ \E p \in Procs : b'[p].pc # "idle" /\ b'[p].count = lastCall'.count
          /\ lastCall'.kind = "started"
      ]_vars

\* The second batch of the session server has just started with one run to do,
\* the first batch having ended.
C26_Witness ==
    /\ variant = "server"
    /\ batches = 2
    /\ lastCall.kind = "started" /\ lastCall.count = 1
    /\ currentJobStats.startTime = 2
    /\ currentJobStats.completedSessions = 0
    /\ currentJobStats.totalSessions = 1
    /\ \E p \in Procs : b[p].pc = "inRun" /\ b[p].i = 1 /\ b[p].run.stage = "create"

\* Runs of the batch in slot p that have finished.
Finished(p) == IF b[p].pc = "delay" THEN b[p].i ELSE b[p].i - 1

\* C27: at every state during a batch completedSessions is the number of
\* finished runs that returned true, errors holds one {run index} record per
\* finished run that threw, and completedSessions plus the error records never
\* exceeds the runs attempted nor totalSessions; a run that returned false
\* changes neither.
C27_StatsCountRuns ==
    /\ [](\A p \in Procs :
            (HasLock(variant) /\ Active(p)) =>
               /\ currentJobStats.completedSessions = b[p].succ
               /\ Len(currentJobStats.errors) = Finished(p) - b[p].nres
               /\ \A k \in 1..Len(currentJobStats.errors) :
                     /\ currentJobStats.errors[k].kind = "run"
                     /\ currentJobStats.errors[k].session \in 1..Finished(p)
               /\ currentJobStats.completedSessions + Len(currentJobStats.errors)
                     <= Len(b[p].attempts)
               /\ Len(b[p].attempts) <= currentJobStats.totalSessions
               /\ currentJobStats.totalSessions = b[p].count)
    /\ [][\A p \in Procs :
            (b[p].pc = "inRun" /\ b'[p].pc = "delay" /\ b'[p].run.result = "false")
            => UNCHANGED currentJobStats
         ]_vars

\* The second run of a batch of the session server returned false after the
\* first had completed: one completed session, no error record.
C27_Witness ==
    /\ variant = "server"
    /\ \E p \in Procs :
          /\ b[p].pc = "delay" /\ b[p].i = 2 /\ b[p].succ = 1
          /\ b[p].run.result = "false"
    /\ currentJobStats.completedSessions = 1
    /\ currentJobStats.errors = <<>>

\* C28: a session run leaves the lock and JobStats unchanged: no step inside a
\* run, at any stage and with any outcome, modifies isJobRunning or
\* currentJobStats; a step in which the run returns changes JobStats only by
\* what the batch runner does with the result.
C28_RunLeavesLockAndStats ==
    [][\A p \in Procs :
         (b[p].pc = "inRun"
            /\ \E o \in {"ok", "fail", "skip", "banner", "miss"} : RunStep(p, o))
         => /\ isJobRunning' = isJobRunning
            /\ b'[p].pc = "inRun" => currentJobStats' = currentJobStats
            /\ b'[p].pc = "delay" =>
                  currentJobStats' =
                     IF HasLock(variant) /\ b'[p].run.result = "true"
                     THEN [currentJobStats EXCEPT !.completedSessions = @ + 1]
                     ELSE currentJobStats
      ]_vars

\* The second run of a batch of the session server is at its logout click, the
\* lock held and JobStats as the first run's completion left it.
C28_Witness ==
    /\ variant = "server"
    /\ isJobRunning
    /\ currentJobStats.completedSessions = 1
    /\ \E p \in Procs :
          b[p].pc = "inRun" /\ b[p].i = 2 /\ b[p].run.stage = "logout"

\* C29: a batch started without a run count - by a cron firing or by a trigger
\* whose body has no sessionCount - has an integer totalSessions with
\* 23 <= totalSessions <= 52; the smallest draw gives 23 and the largest 52.
C29_RandomCountRange ==
    /\ RandomCount(0) = MinSessions
    /\ RandomCount(RandDen - 1) = MaxSessions
    /\ \A p \in Procs :
          (HasLock(variant) /\ Active(p) /\ b[p].asked = 0) =>
             /\ currentJobStats.totalSessions \in MinSessions..MaxSessions
             /\ currentJobStats.totalSessions = b[p].count

\* A cron firing started a batch of 52 runs.
C29_Witness ==
    /\ HasCron(variant)
    /\ lastCall.kind = "started" /\ lastCall.asked = 0
    /\ isJobRunning
    /\ currentJobStats.totalSessions = MaxSessions

\* The four fixed viewports.
Presets ==
    [desktop |-> [width |-> 1920, height |-> 1080],
     tablet  |-> [width |-> 1024, height |-> 768],
     iphone  |-> [width |-> 390, height |-> 844],
     android |-> [width |-> 393, height |-> 851]]

\* C30: every result of randomizeBrowser has one of the four fixed viewports,
\* and it is the iphone or the android one exactly when the device category
\* drawn is mobile.
C30_DevicePresets ==
    device # NoDevice =>
        /\ \E name \in DOMAIN Presets : device.deviceConfig.viewport = Presets[name]
        /\ device.deviceType \in {"desktop", "tablet", "mobile"}
        /\ device.deviceType = "mobile"
              <=> device.deviceConfig.viewport \in {Presets.iphone, Presets.android}
        /\ device.deviceType = "mobile"
              <=> "userAgent" \in DOMAIN device.deviceConfig
        /\ device.deviceType = "desktop" => device.deviceConfig.viewport = Presets.desktop
        /\ device.deviceType = "tablet" => device.deviceConfig.viewport = Presets.tablet

\* The android profile was drawn.
C30_Witness ==
    /\ device # NoDevice
    /\ device.deviceType = "mobile"
    /\ device.deviceConfig.viewport = Presets.android

\* C31: a trigger whose sessionCount is 0 is treated as if no count were given:
\* the batch it starts runs a random count in 23..52, never zero runs, and the
\* 202 response reports the count as 'random(23-52)'.
C31_ZeroCountIsRandom ==
    [][\A m \in Concurrencies :
         (resp'.status = 202 /\ TriggerSessions("good", 0, m))
         => /\ resp'.body.config.sessionCount = CountLabel(Absent)
            /\ resp'.body.config.sessionCount.text = "random(23-52)"
            /\ b'[NextSlot].count \in MinSessions..MaxSessions
            /\ \E k \in RandSamples : b'[NextSlot].count = SessionCount(Absent, k)
            /\ b'[NextSlot].pc # "idle" /\ b'[NextSlot].attempts = <<1>>
            /\ currentJobStats'.totalSessions = b'[NextSlot].count
            /\ lastCall'.kind = "started" /\ lastCall'.asked = 0
      ]_vars

\* A trigger that sent sessionCount 0 was accepted and started a batch of 52 runs.
C31_Witness ==
    /\ resp.req = "trigger" /\ resp.status = 202
    /\ resp.sent.sessionCount = 0
    /\ resp.body.config.sessionCount.text = "random(23-52)"
    /\ \E p \in Procs : b[p].pc # "idle" /\ b[p].i = 1 /\ b[p].count = MaxSessions

\* The last run of the batch in slot p has returned and its delay is running.
LastDelay(p) == b[p].pc = "delay" /\ b[p].i = b[p].count

\* C32: the delay between runs is also performed after the last run of a batch
\* and the lock is cleared only when it has elapsed: the lock is held throughout
\* that delay, a trigger arriving during it is answered 409, and the only step
\* of a running process that clears the lock is the end of that delay.
C32_DelayAfterLastRun ==
    /\ [](\A p \in Procs : (HasLock(variant) /\ LastDelay(p)) => isJobRunning)
    /\ [][\A p \in Procs :
            (b[p].pc = "inRun" /\ b'[p].pc # "inRun" /\ phase' # "exited")
            => b'[p].pc = "delay" /\ isJobRunning' = isJobRunning]_vars
    /\ [][(resp'.req = "trigger" /\ HasLock(variant) /\ (\E p \in Procs : LastDelay(p))
            /\ \E n \in Counts : \E m \in Concurrencies : TriggerSessions("good", n, m))
           => /\ resp'.status = 409
              /\ UNCHANGED <<isJobRunning, currentJobStats, b, batches>>]_vars
    /\ [][(isJobRunning /\ ~isJobRunning')
           => \E p \in Procs : LastDelay(p) /\ DelayElapsed(p)]_vars

\* A trigger was answered 409 during the delay after the only run of a batch.
C32_Witness ==
    /\ resp.req = "trigger" /\ resp.status = 409
    /\ isJobRunning
    /\ \E p \in Procs :
          LastDelay(p) /\ b[p].count = 1 /\ b[p].run.stage = "returned"

\* C33: SIGTERM does not close the start gate: while the shutdown handler is
\* draining, a cron firing or an authenticated trigger that finds the lock clear
\* starts a new batch; and a poll of the drain ends the process, with code 0,
\* exactly when it finds the lock clear or waitTime at the ceiling, whatever was
\* started during the drain. Nothing else ends a draining process.
C33_DrainKeepsGateOpen ==
    /\ [][(phase = "draining" /\ ~isJobRunning /\ CronFire)
           => /\ isJobRunning' /\ batches' = batches + 1
              /\ lastCall'.kind = "started" /\ phase' = "draining"]_vars
    /\ [][(phase = "draining" /\ ~isJobRunning /\ resp'.req = "trigger"
            /\ \E n \in Counts : \E m \in Concurrencies : TriggerSessions("good", n, m))
           => /\ resp'.status = 202
              /\ isJobRunning' /\ batches' = batches + 1
              /\ lastCall'.kind = "started" /\ phase' = "draining"]_vars
    /\ [][\A w \in PollSamples :
            DrainPoll(w)
            => IF ~isJobRunning \/ w >= DrainCeilingMs
               THEN phase' = "exited" /\ exitCode' = 0
               ELSE phase' = "draining" /\ waitTime' = w /\ exitCode' = exitCode]_vars
    /\ [][(phase = "draining" /\ phase' # "draining")
           => \E w \in PollSamples : DrainPoll(w)]_vars

\* A trigger was accepted, and its batch started, while the shutdown handler was
\* polling.
C33_Witness ==
    /\ phase = "draining"
    /\ resp.req = "trigger" /\ resp.status = 202
    /\ isJobRunning
    /\ batches = 2
    /\ lastCall.kind = "started"

\* C34 as stated: a run closes the page and the browser connection only on the
\* path where every stage succeeded, before the release request; a failing run
\* has performed no close, and the release request is its only cleanup action.
C34_CloseOnlyOnSuccess ==
    \A p \in Procs :
        /\ b[p].run.closes > 0 => ~b[p].run.failed
        /\ b[p].run.result = "true" => b[p].run.closes = 2
        /\ (b[p].run.stage = "returned" /\ b[p].run.failed /\ b[p].run.session # 0)
              => b[p].run.closes = 0 /\ b[p].run.releases = 1

\* C34, amended: page and browser connection are closed, in that order, only
\* once every stage of the journey has succeeded and before any release request
\* is issued; a run that fails before the close stage performs no close and
\* nothing but the release request afterwards; a run whose browser close throws
\* has closed the page and returns false.
C34_CloseAfterJourney ==
    /\ [](\A p \in Procs :
            /\ b[p].run.closes > 0
                  => /\ b[p].run.stage \in {"closeBrowser", "release", "returned"}
                     /\ b[p].run.session # 0
            /\ b[p].run.result = "true" <=>
                  (b[p].run.closes = 2 /\ b[p].run.stage \in {"release", "returned"})
            /\ b[p].run.failed => b[p].run.closes <= 1
            /\ b[p].run.releases > 0 => (b[p].run.closes = 2 \/ b[p].run.failed))
    /\ [][\A p \in Procs :
            (b[p].pc = "inRun" /\ \E o \in {"fail", "banner"} : RunStep(p, o))
            => /\ b'[p].run.closes = b[p].run.closes
               /\ (~b[p].run.failed /\ b'[p].run.failed) =>
                     /\ b'[p].run.closes = 1 <=> b[p].run.stage = "closeBrowser"
                     /\ b'[p].run.closes = 0 <=> b[p].run.stage # "closeBrowser"
                     /\ b'[p].run.stage \in {"release", "returned"}
         ]_vars

\* The browser close of a run of the session server threw after its page close
\* went through: the run returned false, released, with one close performed.
C34_Witness ==
    /\ variant = "server"
    /\ \E p \in Procs :
          /\ b[p].run.stage = "returned" /\ b[p].run.failed
          /\ b[p].run.closes = 1 /\ b[p].run.releases = 1
          /\ b[p].run.result = "false"

\* C35: the run-once script exits with code 0 once its batch function settles,
\* whatever the runs returned; once its startup checks and the provider check
\* have passed and the batch has started, exit code 1 is unreachable.
C35_OneShotExitsZero ==
    /\ [](variant = "oneshot" =>
            /\ batches > 0 => exitCode # 1
            /\ lastCall.kind = "completed" => (phase = "exited" /\ exitCode = 0)
            /\ (phase = "exited" /\ exitCode = 1) => batches = 0)
    /\ [][(variant = "oneshot" /\ lastCall.kind # "completed"
            /\ lastCall'.kind = "completed")
           => /\ phase' = "exited" /\ exitCode' = 0
              /\ lastCall'.attempts = InOrder(lastCall'.count)]_vars

\* The run-once script has exited with code 0 after a batch one run of which
\* returned false.
C35_Witness ==
    /\ variant = "oneshot"
    /\ phase = "exited" /\ exitCode = 0
    /\ lastCall.kind = "completed"
    /\ lastCall.succ = lastCall.count - 1

\* The parameter names of a query string, in order.
Names(url) == [k \in 1..Len(url) |-> url[k].name]

\* C36: the URL of a run's first navigation carries exactly utm_source,
\* utm_medium and utm_campaign and never utm_term, also when the medium is
\* "search"; the URL written to the completion log carries utm_term as well
\* exactly then, so the two differ exactly when the medium is "search".
C36_TermOnlyInLogUrl ==
    urls # NoUrls =>
        /\ Names(urls.landing) = <<"utm_source", "utm_medium", "utm_campaign">>
        /\ urls.landing[1].value = utm.utm_source
        /\ urls.landing[2].value = utm.utm_medium
        /\ urls.landing[3].value = utm.utm_campaign
        /\ \A k \in 1..Len(urls.log) :
              urls.log[k].name = "utm_term" => (k = 4 /\ urls.log[k].value = utm.utm_term)
        /\ (\E k \in 1..Len(urls.log) : urls.log[k].name = "utm_term")
              <=> utm.utm_medium = "search"
        /\ urls.landing = [k \in 1..3 |-> urls.log[k]]
        /\ urls.landing # urls.log <=> utm.utm_medium = "search"

\* The URLs of a run whose medium is "search": three parameters at the first
\* navigation, four in the log.
C36_Witness ==
    /\ urls # NoUrls
    /\ utm.utm_medium = "search"
    /\ Len(urls.landing) = 3 /\ Len(urls.log) = 4
    /\ urls.log[4].name = "utm_term"

====
